---- MODULE Spec2Model ----
(***************************************************************************)
(* Model of ImportMatrices (import_auto_demand.py): the import of the     *)
(* CT-RAMP auto demand from OMX files into the accumulator cache and the   *)
(* matrix store, the commercial-vehicle blend, and the aggregate           *)
(* internal-external / external-external additions.                        *)
(*                                                                         *)
(* Numbers.  The program computes in floating point.  The model computes   *)
(* exactly, in fixed point: every real number x is held as the integer     *)
(* x * Units.  Units is chosen so that every product and quotient the      *)
(* program forms on the inputs below is exact (thirds, halves, quarters    *)
(* and tenths all divide it).  Rounding of floating point is not modelled. *)
(* Source matrices hold whole trips; Fix() converts them.                  *)
(***************************************************************************)
EXTENDS Integers, Sequences, FiniteSets, TLC

\* ------------------------------------------------------------------ bounds
\* Number of zones of the model's matrices (the program's is 4996).
NumZones == 2
\* Source matrices are drawn from the patterns 0..MaxSeed.
MaxSeed == 1
\* The tool object is called at most MaxRuns times.
MaxRuns == 2

\* ------------------------------------------------------------ fixed point
Units == 4 * 30
Fix(n) == n * Units
Mul(a, b) == (a * b) \div Units
Div(a, b) == (a * Units) \div b

\* --------------------------------------------------------------- matrices
Zones == 1..NumZones
Cells == Zones \X Zones
Zero == [c \in Cells |-> 0]
MAdd(a, b) == [c \in Cells |-> a[c] + b[c]]
MSub(a, b) == [c \in Cells |-> a[c] - b[c]]
MMul(a, f) == [c \in Cells |-> Mul(a[c], f)]
MDiv(a, f) == [c \in Cells |-> Div(a[c], f)]

RECURSIVE SumSeq(_)
SumSeq(s) == IF s = <<>> THEN Zero ELSE MAdd(Head(s), SumSeq(Tail(s)))

Reverse(s) == [i \in 1..Len(s) |-> s[Len(s) + 1 - i]]

Idx(seq, x) == CHOOSE i \in 1..Len(seq) : seq[i] = x

\* ------------------------------------------------------------------ names
\* periods (without the leading "_") and the letter of each vot bin
periods == <<"EA", "AM", "MD", "PM", "EV">>
vot_bins == <<"L", "M", "H">>
Periods == {periods[i] : i \in 1..Len(periods)}
Vots == {vot_bins[i] : i \in 1..Len(vot_bins)}

\* A matrix of the emmebank, "mf<period>_<mode>_<vot>", is <<period, mode, vot>>;
\* the truck matrices have no vot part.
AutoModes == {"SOV_NT", "SOV_TR", "HOV2", "HOV3"}
AutoNames == {<<p, m, v>> : p \in Periods, m \in AutoModes, v \in Vots}
TruckModes == {"TRK_L", "TRK_M", "TRK_H"}
TruckNames == {<<p, m, "">> : p \in Periods, m \in TruckModes}
TruckVehNames == {<<p, m, "VEH">> : p \in Periods, m \in TruckModes}
StoreNames == AutoNames \cup TruckNames \cup TruckVehNames

\* OMX files ("%sTrips%s%s.omx") by base name; the airport files carry the
\* airport code.  The CBX files are optional, every other file is required.
OmxKinds == <<"auto", "autoVisitor", "autoCrossBorder", "autoAirport.SAN",
              "autoAirport.CBX", "autoInternalExternal", "othr", "othrVisitor",
              "othrCrossBorder", "othrAirport.SAN", "othrAirport.CBX",
              "othrInternalExternal", "EmptyAV", "TNCVehicle">>
OmxFields == <<"SOVNOTRPDR", "SOVTRPDR", "SOV", "SR2TRPDR", "SR2NOTRPDR", "SR2",
               "SR3TRPDR", "SR3NOTRPDR", "SR3", "TAXI", "EmptyAV",
               "TNC_0", "TNC_1", "TNC_2", "TNC_3">>

\* Aggregate-model matrices of the emmebank, read by add_aggregate_demand.
AggFields == <<"EIWORK", "EINONWORK", "EETRIPS">>
AggModes == <<"SOVGP", "SOVTOLL", "HOV2HOV", "HOV2TOLL", "HOV3HOV", "HOV3TOLL",
              "SOV", "HOV2", "HOV3">>

VARIABLES
    seed,          \* which pattern the source matrices follow
    exists,        \* the optional OMX files that exist
    missing,       \* the required OMX file that is absent, or NoFile
    props,         \* sandag_abm.properties: the taxi and AV entries
    external_zones,\* <<first, last>> of the external zone range
    cvm,           \* import_commercial_vehicle_demand: the cvm.* locals
    table,         \* TripMatrices.csv as read: "ok" or "bad_shape"
    cvm_order,     \* iteration order of the mapping dict
    pc,            \* position in __call__
    period_i,      \* import_traffic_trips: index of the period of the loop
    step,          \* import_traffic_trips: set_data call within the period
    cache,         \* self._matrix_cache
    store,         \* the emmebank's matrices of the scenario
    error,         \* exception in flight / raised to the caller
    av_demand,     \* local of import_traffic_trips
    total_ct_ramp_trips, \* local of import_traffic_trips
    passed,        \* per name, the values passed to set_data (history)
    writes,        \* per name, set_numpy_data calls made by setup()
    array,         \* import_commercial_vehicle_demand: value["array"] per key
    cvm_reads,     \* starting matrices read by import_commercial_vehicle_demand
    commits,       \* per mapping key, set_numpy_data calls of the commit loop
    matrix_unique, \* destinations written by the commit loop
    commit_i,      \* commit loop: keys committed so far
    agg_adds,      \* matrix_calc runs made by add_aggregate_demand
    run,           \* which call of __call__ on this tool object this is
    first          \* the emmebank's matrices as the previous call left them

vars == <<seed, exists, missing, props, external_zones, cvm, table, cvm_order,
          pc, period_i, step, cache, store, error, av_demand,
          total_ct_ramp_trips, passed, writes, array, cvm_reads, commits,
          matrix_unique, commit_i, agg_adds, run, first>>

\* the calls made so far
calls == <<run, first>>
inputs == <<seed, exists, missing, props, external_zones>>

\* ----------------------------------------------------------------- inputs
NoFile == <<"", "">>
NoError == "none"

\* the position of a name in its list, tabulated
IdxOf(seq) == [x \in {seq[i] : i \in 1..Len(seq)} |-> Idx(seq, x)]
PeriodNo == IdxOf(periods)
VotNo == IdxOf(vot_bins)
OmxKindNo == IdxOf(OmxKinds)
OmxFieldNo == IdxOf(OmxFields)
AggModeNo == IdxOf(AggModes)
AggFieldNo == IdxOf(AggFields)
VotIdx(v) == IF v = "" THEN 0 ELSE VotNo[v]
PeriodIdx(p) == IF p = "" THEN 0 ELSE PeriodNo[p]

\* The whole trips of one matrix of one OMX file: file is <<base name, period,
\* vot>> and field is <<matrix name, period>>.
TripsAt(file, field, c) ==
    (OmxKindNo[file[1]] * 5 + PeriodIdx(field[2]) * 4 + VotIdx(file[3]) * 7
     + OmxFieldNo[field[1]] * 11 + c[1] * 2 + c[2] + seed * (1 + c[1])) % 3
Trips(file, field) == [c \in Cells |-> TripsAt(file, field, c)]

\* gen_utils.OMXManager.lookup: the matrix `field` of the file
lookup(file, field) == [c \in Cells |-> Fix(TripsAt(file, field, c))]

\* gen_utils.OMXManager.file_exists
file_exists(file) == file[1] \in exists

\* lookup fails when the file is not there
Absent(file) == missing # NoFile /\ missing[1] = file[1] /\ missing[2] = file[2]

\* The aggregate-model matrices mf<period>_<mode>_<field> of the emmebank.
AggMatrix(p, m, f) ==
    [c \in Cells |->
        Fix((AggModeNo[m] * 5 + PeriodIdx(p) * 7 + AggFieldNo[f] * 2
             + c[1] + c[2] * 2 + seed * (1 + c[2])) % 3)]

\* TripMatrices.csv: the column of a mapping key <<period, class>>, reshaped.
CvmClasses == <<"LNT", "INT", "MNT", "HNT">>
CvmKeys == {<<p, k>> : p \in Periods, k \in {CvmClasses[i] : i \in 1..Len(CvmClasses)}}
TableColumn(key) ==
    [c \in Cells |->
        Fix((Idx(CvmClasses, key[2]) * 2 + PeriodIdx(key[1]) * 5
             + c[1] * 2 + c[2] + seed * (1 + c[1])) % 3)]

\* What the emmebank holds before the run: the truck vehicle matrices, and
\* whatever an earlier run left in the destination matrices.
StartMatrix(n) ==
    [c \in Cells |->
        Fix((PeriodIdx(n[1]) * 4 + VotIdx(IF n[3] \in Vots THEN n[3] ELSE "") * 5
             + (IF n[2] \in TruckModes THEN 1 ELSE 2) + c[1] + c[2] * 2 + seed) % 3)]

\* sandag_abm.properties: Taxi.*.share / Taxi.passengersPerVehicle
TaxiProps ==
    { [da |-> Units, s2 |-> Units \div 2, s3 |-> Units \div 2, pce |-> Units],
      [da |-> Units \div 2, s2 |-> Units, s3 |-> 0, pce |-> 2 * Units] }
\* Mobility.AV.Share
AvShares == {0, Units \div 2}
\* cvm.scale_factor, cvm.scale_light/medium/heavy (one per period), cvm.share.*
Ones == [i \in 1..Len(periods) |-> Units]
Alternating == [i \in 1..Len(periods) |-> IF i % 2 = 0 THEN Units ELSE 2 * Units]
CvmProps ==
    { [scale_factor |-> Units, scale_light |-> Ones, scale_medium |-> Ones,
       scale_heavy |-> Ones, share_light |-> 0, share_medium |-> 0,
       share_heavy |-> 0],
      [scale_factor |-> 2 * Units, scale_light |-> Alternating, scale_medium |-> Ones,
       scale_heavy |-> Alternating, share_light |-> Units \div 2,
       share_medium |-> Units, share_heavy |-> Units \div 2],
      [scale_factor |-> Units, scale_light |-> Ones, scale_medium |-> Ones,
       scale_heavy |-> Ones, share_light |-> 0, share_medium |-> 0,
       share_heavy |-> 2 * Units] }
\* the ranges the cvm.* entries are meant to lie in: no scale negative, every
\* share between 0 and 1.  The third record above is outside them.
InRange(r) ==
    /\ r.scale_factor > 0
    /\ \A i \in 1..Len(periods) :
          r.scale_light[i] >= 0 /\ r.scale_medium[i] >= 0 /\ r.scale_heavy[i] >= 0
    /\ \A share \in {r.share_light, r.share_medium, r.share_heavy} :
          0 <= share /\ share <= Units
Props == {[taxi |-> t, av_share |-> a] : t \in TaxiProps, a \in AvShares}
\* the locals before import_commercial_vehicle_demand assigns them
Unset == [i \in 1..Len(periods) |-> 0]
CvmUnread ==
    [scale_factor |-> 0, scale_light |-> Unset, scale_medium |-> Unset,
     scale_heavy |-> Unset, share_light |-> 0, share_medium |-> 0, share_heavy |-> 0]

OptionalFiles == {"autoAirport.CBX", "othrAirport.CBX"}
MissingChoices ==
    {NoFile, <<"auto", "EA">>, <<"autoInternalExternal", "MD">>,
     <<"autoVisitor", "PM">>, <<"othrVisitor", "AM">>}
ExternalZoneChoices == {<<1, 1>>, <<1, NumZones>>}

EmptyCache == [n \in {} |-> Zero]

Init ==
    /\ seed \in 0..MaxSeed
    /\ exists \in SUBSET OptionalFiles
    /\ missing \in MissingChoices
    /\ props \in Props
    /\ external_zones \in ExternalZoneChoices
    /\ cvm = CvmUnread
    /\ table = "unread"
    /\ cvm_order = "unset"
    /\ pc = "start"
    /\ period_i = 1
    /\ step = 1
    /\ cache = EmptyCache
    /\ store = [n \in StoreNames |-> StartMatrix(n)]
    /\ error = NoError
    /\ av_demand = Zero
    /\ total_ct_ramp_trips = Zero
    /\ passed = [n \in AutoNames |-> <<>>]
    /\ writes = [n \in AutoNames |-> 0]
    /\ array = [k \in CvmKeys |-> Zero]
    /\ cvm_reads = 0
    /\ commits = [k \in CvmKeys |-> 0]
    /\ matrix_unique = {}
    /\ commit_i = 0
    /\ agg_adds = 0
    /\ run = 1
    /\ first = [n \in StoreNames |-> Zero]

\* ------------------------------------------------- import_traffic_trips
\* set_data: the cache after the call
SetDataReplaces(c, name, value) ==
    [n \in DOMAIN c \cup {name} |-> IF n = name THEN value ELSE c[n]]
set_data(c, name, value) ==
    LET summed == IF name \in DOMAIN c THEN MAdd(value, c[name]) ELSE value
    IN  [n \in DOMAIN c \cup {name} |-> IF n = name THEN summed ELSE c[n]]

\* mode_shares: the destination template and its TAXI share
ModeSharesWithoutPce ==
    << <<"SOV_TR", props.taxi.da>>, <<"HOV2", props.taxi.s2>>,
       <<"HOV3", props.taxi.s3>> >>
mode_shares ==
    << <<"SOV_TR", Div(props.taxi.da, props.taxi.pce)>>,
       <<"HOV2", Div(props.taxi.s2, props.taxi.pce)>>,
       <<"HOV3", Div(props.taxi.s3, props.taxi.pce)>> >>

\* The set_data calls of one period: 1..12 are the four totals of each vot
\* bin, 13..15 the TAXI / AV totals added to vot "high".
StepsPerVot == Cardinality(AutoModes)
BaseSteps == Len(vot_bins) * StepsPerVot
LastStep == BaseSteps + Len(mode_shares)
StepVot(s) == vot_bins[((s - 1) \div StepsPerVot) + 1]
StepMode(s) ==
    IF s > BaseSteps THEN mode_shares[s - BaseSteps][1]
    ELSE <<"SOV_NT", "SOV_TR", "HOV2", "HOV3">>[((s - 1) % StepsPerVot) + 1]

\* airport(SAN), plus airport(CBX) when that file exists
AirportDemand(p, v, field) ==
    LET san == lookup(<<"autoAirport.SAN", p, v>>, <<field, p>>)
    IN  IF file_exists(<<"autoAirport.CBX", p, v>>)
        THEN MAdd(san, lookup(<<"autoAirport.CBX", p, v>>, <<field, p>>))
        ELSE san

\* SOV non-transponder demand
SovNTWithAirport(p, v) ==
    MAdd(MAdd(MAdd(lookup(<<"auto", p, v>>, <<"SOVNOTRPDR", p>>),
                   lookup(<<"autoVisitor", p, v>>, <<"SOV", p>>)),
              lookup(<<"autoCrossBorder", p, v>>, <<"SOV", p>>)),
         AirportDemand(p, v, "SOV"))
SovNTTotal(p, v) ==
    MAdd(MAdd(lookup(<<"auto", p, v>>, <<"SOVNOTRPDR", p>>),
              lookup(<<"autoVisitor", p, v>>, <<"SOV", p>>)),
         lookup(<<"autoCrossBorder", p, v>>, <<"SOV", p>>))
SovNTFiles(p, v) ==
    {<<"auto", p, v>>, <<"autoVisitor", p, v>>, <<"autoCrossBorder", p, v>>}

\* SOV transponder demand
SovTRCbxAlways(p, v) ==
    MAdd(MAdd(MAdd(lookup(<<"auto", p, v>>, <<"SOVTRPDR", p>>),
                   lookup(<<"autoAirport.SAN", p, v>>, <<"SOV", p>>)),
              lookup(<<"autoAirport.CBX", p, v>>, <<"SOV", p>>)),
         lookup(<<"autoInternalExternal", p, v>>, <<"SOV", p>>))
SovTRTotal(p, v) ==
    MAdd(MAdd(lookup(<<"auto", p, v>>, <<"SOVTRPDR", p>>),
              AirportDemand(p, v, "SOV")),
         lookup(<<"autoInternalExternal", p, v>>, <<"SOV", p>>))
SovTRFiles(p, v) ==
    {<<"auto", p, v>>, <<"autoAirport.SAN", p, v>>, <<"autoInternalExternal", p, v>>}

\* HOV2 and HOV3 demand: sr is "SR2" or "SR3"
HovName(mode) == IF mode = "HOV2" THEN "SR2" ELSE "SR3"
HovField(sr, suffix) ==
    IF sr = "SR2"
    THEN (IF suffix = "TRPDR" THEN "SR2TRPDR" ELSE "SR2NOTRPDR")
    ELSE (IF suffix = "TRPDR" THEN "SR3TRPDR" ELSE "SR3NOTRPDR")
HovTotal(p, v, sr) ==
    LET resident_demand ==
            MAdd(lookup(<<"auto", p, v>>, <<HovField(sr, "TRPDR"), p>>),
                 lookup(<<"auto", p, v>>, <<HovField(sr, "NOTRPDR"), p>>))
        visitor_demand == lookup(<<"autoVisitor", p, v>>, <<sr, p>>)
        cross_border_demand == lookup(<<"autoCrossBorder", p, v>>, <<sr, p>>)
        internal_external_demand == lookup(<<"autoInternalExternal", p, v>>, <<sr, p>>)
    IN  MAdd(MAdd(MAdd(MAdd(resident_demand, visitor_demand), cross_border_demand),
                  AirportDemand(p, v, sr)),
             internal_external_demand)
HovFiles(p, v) ==
    {<<"auto", p, v>>, <<"autoVisitor", p, v>>, <<"autoCrossBorder", p, v>>,
     <<"autoAirport.SAN", p, v>>, <<"autoInternalExternal", p, v>>}

\* TAXI demand of the period times the share of the destination
TaxiFiles(p) ==
    {<<"othr", p, "">>, <<"othrVisitor", p, "">>, <<"othrCrossBorder", p, "">>,
     <<"othrAirport.SAN", p, "">>, <<"othrInternalExternal", p, "">>,
     <<"EmptyAV", "", "">>, <<"TNCVehicle", p, "">>}
TaxiDemand(p, share) ==
    LET resident_taxi_demand == MMul(lookup(<<"othr", p, "">>, <<"TAXI", p>>), share)
        visitor_taxi_demand ==
            MMul(lookup(<<"othrVisitor", p, "">>, <<"TAXI", p>>), share)
        cross_border_taxi_demand ==
            MMul(lookup(<<"othrCrossBorder", p, "">>, <<"TAXI", p>>), share)
        san == MMul(lookup(<<"othrAirport.SAN", p, "">>, <<"TAXI", p>>), share)
        airport_taxi_demand ==
            IF file_exists(<<"othrAirport.CBX", p, "">>)
            THEN MAdd(san, MMul(lookup(<<"othrAirport.CBX", p, "">>, <<"TAXI", p>>), share))
            ELSE san
        internal_external_taxi_demand ==
            MMul(lookup(<<"othrInternalExternal", p, "">>, <<"TAXI", p>>), share)
    IN  MAdd(MAdd(MAdd(MAdd(resident_taxi_demand, visitor_taxi_demand),
                       cross_border_taxi_demand),
                  airport_taxi_demand),
             internal_external_taxi_demand)

\* AV routing and TNC fleet demand of the destination template
AvDemandNoShift(p, tmpl, av_share) ==
    LET empty_av_demand == lookup(<<"EmptyAV", "", "">>, <<"EmptyAV", p>>)
        tnc_demand_0 == lookup(<<"TNCVehicle", p, "">>, <<"TNC_0", p>>)
        tnc_demand_1 == lookup(<<"TNCVehicle", p, "">>, <<"TNC_1", p>>)
        tnc_demand_2 == lookup(<<"TNCVehicle", p, "">>, <<"TNC_2", p>>)
        tnc_demand_3 == lookup(<<"TNCVehicle", p, "">>, <<"TNC_3", p>>)
    IN  IF tmpl = "SOV_TR" THEN MAdd(MAdd(empty_av_demand, tnc_demand_0), tnc_demand_1)
        ELSE IF tmpl = "HOV2" THEN tnc_demand_2
        ELSE tnc_demand_3
AvDemand(p, tmpl, av_share) ==
    LET empty_av_demand == lookup(<<"EmptyAV", "", "">>, <<"EmptyAV", p>>)
        tnc_demand_0 == lookup(<<"TNCVehicle", p, "">>, <<"TNC_0", p>>)
        tnc_demand_1 == lookup(<<"TNCVehicle", p, "">>, <<"TNC_1", p>>)
        tnc_demand_2 == lookup(<<"TNCVehicle", p, "">>, <<"TNC_2", p>>)
        tnc_demand_3 == lookup(<<"TNCVehicle", p, "">>, <<"TNC_3", p>>)
    IN  IF av_share > 0
        THEN (IF tmpl = "SOV_TR"
              THEN MAdd(MAdd(empty_av_demand, tnc_demand_0), tnc_demand_1)
              ELSE IF tmpl = "HOV2" THEN tnc_demand_2
              ELSE tnc_demand_3)
        ELSE (IF tmpl = "SOV_TR" THEN tnc_demand_0
              ELSE IF tmpl = "HOV2" THEN tnc_demand_1
              ELSE MAdd(tnc_demand_2, tnc_demand_3))

\* The destination of the taxi / AV total of a template: always vot "high"
TaxiVot(tmpl) == "H"

\* __call__: where control goes when a stage returns
AfterStageAggregateFirst(stage) ==
    CASE stage = "import_traffic_trips" -> "agg_ei"
      [] stage = "add_aggregate_demand" -> "cvm_load"
      [] stage = "import_commercial_vehicle_demand" -> "done"
AfterStage(stage) ==
    CASE stage = "import_traffic_trips" -> "cvm_load"
      [] stage = "import_commercial_vehicle_demand" -> "agg_ei"
      [] stage = "add_aggregate_demand" -> "done"

\* the entry of setup() were the cache of the previous call kept
StartKeepsCache ==
    /\ pc = "start"
    /\ pc' = "traffic"
    /\ UNCHANGED <<inputs, calls, cvm, table, cvm_order, period_i, step, cache, store,
                   error, av_demand, total_ct_ramp_trips, passed, writes, array,
                   cvm_reads, commits, matrix_unique, commit_i, agg_adds>>
\* __call__ enters import_traffic_trips, which enters setup()
Start ==
    /\ pc = "start"
    /\ pc' = "traffic"
    /\ cache' = EmptyCache
    /\ UNCHANGED <<inputs, calls, cvm, table, cvm_order, period_i, step, store, error, av_demand,
                   total_ct_ramp_trips, passed, writes, array, cvm_reads,
                   commits, matrix_unique, commit_i, agg_adds>>

\* a lookup inside the with block raises: control goes to the finally clause
RaiseInScope ==
    /\ pc' = "flush"
    /\ error' = "MissingSource"
    /\ UNCHANGED <<inputs, calls, cvm, table, cvm_order, period_i, step, cache, store, av_demand,
                   total_ct_ramp_trips, passed, writes, array, cvm_reads,
                   commits, matrix_unique, commit_i, agg_adds>>

\* the loops of import_traffic_trips move on after a set_data call
Advance ==
    IF step < LastStep
    THEN /\ step' = step + 1
         /\ UNCHANGED <<period_i, pc>>
    ELSE IF period_i < Len(periods)
    THEN /\ step' = 1
         /\ period_i' = period_i + 1
         /\ UNCHANGED pc
    ELSE /\ pc' = "flush"
         /\ UNCHANGED <<period_i, step>>

\* one total of the vot loop: compute it and pass it to set_data
SetTotal(name, total) ==
    /\ cache' = set_data(cache, name, total)
    /\ total_ct_ramp_trips' = total
    /\ passed' = [passed EXCEPT ![name] = Append(@, total)]
    /\ Advance
    /\ UNCHANGED <<inputs, calls, cvm, table, cvm_order, store, error, writes, array, cvm_reads, commits,
                   matrix_unique, commit_i, agg_adds>>

ImportSovNT ==
    /\ pc = "traffic" /\ step <= BaseSteps /\ StepMode(step) = "SOV_NT"
    /\ LET p == periods[period_i]
           v == StepVot(step)
       IN  IF \E f \in SovNTFiles(p, v) : Absent(f)
           THEN RaiseInScope
           ELSE SetTotal(<<p, "SOV_NT", v>>, SovNTTotal(p, v)) /\ UNCHANGED av_demand

ImportSovTR ==
    /\ pc = "traffic" /\ step <= BaseSteps /\ StepMode(step) = "SOV_TR"
    /\ LET p == periods[period_i]
           v == StepVot(step)
       IN  IF \E f \in SovTRFiles(p, v) : Absent(f)
           THEN RaiseInScope
           ELSE SetTotal(<<p, "SOV_TR", v>>, SovTRTotal(p, v)) /\ UNCHANGED av_demand

ImportHov ==
    /\ pc = "traffic" /\ step <= BaseSteps /\ StepMode(step) \in {"HOV2", "HOV3"}
    /\ LET p == periods[period_i]
           v == StepVot(step)
           mode == StepMode(step)
       IN  IF \E f \in HovFiles(p, v) : Absent(f)
           THEN RaiseInScope
           ELSE SetTotal(<<p, mode, v>>, HovTotal(p, v, HovName(mode)))
                /\ UNCHANGED av_demand

\* add TNC and TAXI demand to vot="high"
ImportTaxi ==
    /\ pc = "traffic" /\ step > BaseSteps
    /\ LET p == periods[period_i]
           tmpl == mode_shares[step - BaseSteps][1]
           share == mode_shares[step - BaseSteps][2]
           av == AvDemand(p, tmpl, props.av_share)
       IN  IF \E f \in TaxiFiles(p) : Absent(f)
           THEN RaiseInScope
           ELSE /\ av_demand' = av
                /\ SetTotal(<<p, tmpl, TaxiVot(tmpl)>>, MAdd(TaxiDemand(p, share), av))

\* setup(): the finally clause writes the cache out, then the exception in
\* flight, if any, goes on to the caller of __call__
FlushSkipsOnError ==
    /\ pc = "flush"
    /\ store' = IF error = NoError
                THEN [n \in StoreNames |-> IF n \in DOMAIN cache THEN cache[n] ELSE store[n]]
                ELSE store
    /\ writes' = IF error = NoError
                 THEN [n \in AutoNames |-> IF n \in DOMAIN cache THEN writes[n] + 1 ELSE writes[n]]
                 ELSE writes
    /\ pc' = IF error = NoError THEN AfterStage("import_traffic_trips") ELSE "raised"
    /\ UNCHANGED <<inputs, calls, cvm, table, cvm_order, period_i, step, cache, error, av_demand,
                   total_ct_ramp_trips, passed, array, cvm_reads, commits,
                   matrix_unique, commit_i, agg_adds>>
Flush ==
    /\ pc = "flush"
    /\ store' = [n \in StoreNames |-> IF n \in DOMAIN cache THEN cache[n] ELSE store[n]]
    /\ writes' = [n \in AutoNames |-> IF n \in DOMAIN cache THEN writes[n] + 1 ELSE writes[n]]
    /\ pc' = IF error = NoError THEN AfterStage("import_traffic_trips") ELSE "raised"
    /\ UNCHANGED <<inputs, calls, cvm, table, cvm_order, period_i, step, cache, error, av_demand,
                   total_ct_ramp_trips, passed, array, cvm_reads, commits,
                   matrix_unique, commit_i, agg_adds>>

\* --------------------------------------- import_commercial_vehicle_demand
\* mapping["CVM_<period>:<class>"]
Mapping(key) ==
    LET p == key[1]
        i == PeriodIdx(p)
    IN  CASE key[2] = "LNT" ->
               [orig |-> <<p, "SOV_TR", "H">>, dest |-> <<p, "SOV_TR", "H">>,
                pce |-> Units, scale |-> cvm.scale_light[i],
                share |-> cvm.share_light, period |-> p]
          [] key[2] = "INT" ->
               [orig |-> <<p, "TRK_L", "VEH">>, dest |-> <<p, "TRK_L", "">>,
                pce |-> (13 * Units) \div 10, scale |-> cvm.scale_medium[i],
                share |-> cvm.share_medium, period |-> p]
          [] key[2] = "MNT" ->
               [orig |-> <<p, "TRK_M", "VEH">>, dest |-> <<p, "TRK_M", "">>,
                pce |-> (15 * Units) \div 10, scale |-> cvm.scale_medium[i],
                share |-> cvm.share_medium, period |-> p]
          [] key[2] = "HNT" ->
               [orig |-> <<p, "TRK_H", "VEH">>, dest |-> <<p, "TRK_H", "">>,
                pce |-> (25 * Units) \div 10, scale |-> cvm.scale_heavy[i],
                share |-> cvm.share_heavy, period |-> p]

\* mapping.iteritems(): the keys in the order the dict yields them
KeysForward ==
    [i \in 1..(Len(periods) * Len(CvmClasses)) |->
        <<periods[((i - 1) \div Len(CvmClasses)) + 1],
          CvmClasses[((i - 1) % Len(CvmClasses)) + 1]>>]
KeyOrder == IF cvm_order = "forward" THEN KeysForward ELSE Reverse(KeysForward)

\* the column of the key, by the scale only: the division by the scale factor
\* of trip generation left out
ScaledCvmWithoutScaleFactor(key) ==
    MMul(TableColumn(key), Mapping(key).scale)
\* the column of the key, by the scale factor of trip generation, by the scale
ScaledCvm(key) ==
    MMul(MDiv(TableColumn(key), cvm.scale_factor), Mapping(key).scale)

\* what the INT key would gain were the complement of each share used
RECURSIVE RedistributedComplement(_, _)
RedistributedComplement(p, vehs) ==
    IF vehs = <<>> THEN Zero
    ELSE LET key_new == <<p, Head(vehs)>>
             value_new == Mapping(key_new)
             rest == RedistributedComplement(p, Tail(vehs))
         IN  IF value_new.share # 0
             THEN MAdd(rest, MMul(ScaledCvm(key_new), Units - value_new.share))
             ELSE rest
\* add cvm truck vehicles to light-heavy trucks: what the INT key gains
RECURSIVE Redistributed(_, _)
Redistributed(p, vehs) ==
    IF vehs = <<>> THEN Zero
    ELSE LET key_new == <<p, Head(vehs)>>
             value_new == Mapping(key_new)
             rest == Redistributed(p, Tail(vehs))
         IN  IF value_new.share # 0
             THEN MAdd(rest, MMul(ScaledCvm(key_new), value_new.share))
             ELSE rest

\* value["array"] of a key after the two loops over TripMatrices.csv
ProcessedArray(key, start) ==
    LET own == MAdd(start, MMul(ScaledCvm(key), Units - Mapping(key).share))
    IN  IF key[2] = "INT"
        THEN MAdd(own, Redistributed(key[1], <<"LNT", "MNT", "HNT">>))
        ELSE own

\* Load starting SOV and truck matrices
CvmLoad ==
    /\ pc = "cvm_load"
    /\ cvm' \in IF cvm = CvmUnread THEN CvmProps ELSE {cvm}
    /\ cvm_order' \in {"forward", "reverse"}
    /\ array' = [k \in CvmKeys |-> store[Mapping(k).orig]]
    /\ cvm_reads' = cvm_reads + Cardinality(CvmKeys)
    /\ pc' = "cvm_process"
    /\ UNCHANGED <<inputs, calls, table, period_i, step, cache, store, error, av_demand,
                   total_ct_ramp_trips, passed, writes, commits, matrix_unique,
                   commit_i, agg_adds>>

\* Processing CVM from TripMatrices.csv; reshape raises on a column of the
\* wrong length
CvmProcess ==
    /\ pc = "cvm_process"
    /\ table' \in IF table = "unread" THEN {"ok", "bad_shape"} ELSE {table}
    /\ IF table' = "ok"
       THEN /\ array' = [k \in CvmKeys |-> ProcessedArray(k, array[k])]
            /\ pc' = "cvm_commit"
            /\ UNCHANGED error
       ELSE /\ error' = "ValueError"
            /\ pc' = "raised"
            /\ UNCHANGED array
    /\ UNCHANGED <<inputs, calls, cvm, cvm_order, period_i, step, cache, store, av_demand,
                   total_ct_ramp_trips, passed, writes, cvm_reads, commits,
                   matrix_unique, commit_i, agg_adds>>

\* Save SOV matrix and convert CV and truck vehicle demand to PCEs: one key
CvmCommit ==
    /\ pc = "cvm_commit"
    /\ LET key == KeyOrder[commit_i + 1]
           value == Mapping(key)
           scaled == MMul(array[key], value.pce)
           arr == IF value.dest \in matrix_unique
                  THEN MAdd(scaled, store[value.dest])
                  ELSE scaled
       IN  /\ store' = [store EXCEPT ![value.dest] = arr]
           /\ matrix_unique' = matrix_unique \cup {value.dest}
           /\ commits' = [commits EXCEPT ![key] = @ + 1]
    /\ commit_i' = commit_i + 1
    /\ pc' = IF commit_i + 1 = Len(KeyOrder)
             THEN AfterStage("import_commercial_vehicle_demand")
             ELSE "cvm_commit"
    /\ UNCHANGED <<inputs, calls, cvm, table, cvm_order, period_i, step, cache, error, av_demand,
                   total_ct_ramp_trips, passed, writes, array, cvm_reads, agg_adds>>

\* ------------------------------------------------- add_aggregate_demand
\* dem_utils.MatrixCalculator.  add() queues one calculation: the result
\* matrix, the matrix the expression adds to it, and the zones the result
\* is restricted to (<<>> when unconstrained).  Leaving trace_run runs the
\* queued calculations one after the other: each evaluates its expression
\* on the emmebank as the one before left it, and stores the result in the
\* cells inside the constraint.  Calculate is one calculation on its result
\* matrix m.
InConstraint(c, zones) ==
    \/ zones = <<>>
    \/ /\ c[1] >= zones[1] /\ c[1] <= zones[2]
       /\ c[2] >= zones[1] /\ c[2] <= zones[2]
Calculate(m, calc) ==
    [c \in Cells |-> IF InConstraint(c, calc.constraint)
                     THEN m[c] + calc.add[c]
                     ELSE m[c]]
RECURSIVE CalculateAll(_, _)
CalculateAll(m, calcs) ==
    IF calcs = <<>> THEN m
    ELSE CalculateAll(Calculate(m, Head(calcs)), Tail(calcs))
\* A calculation reads its own result matrix and aggregate matrices that no
\* calculation writes, so the run comes to applying to each matrix, in their
\* order, the calculations that name it.
RunCalculations(st, calcs) ==
    [n \in DOMAIN st |->
        CalculateAll(st[n], SelectSeq(calcs, LAMBDA calc : calc.result = n))]

\* (1.0/3.0) * matrix
Third(m) == MMul(m, Div(Fix(1), Fix(3)))

\* External-internal trips: modes, modes_assign and the calculations added
ei_modes == <<"SOVGP", "SOVTOLL", "HOV2HOV", "HOV2TOLL", "HOV3HOV", "HOV3TOLL">>
ModesAssignTollToNT(mode) ==
    CASE mode = "SOVGP" -> "SOV_TR"
      [] mode = "SOVTOLL" -> "SOV_NT"
      [] mode \in {"HOV2HOV", "HOV2TOLL"} -> "HOV2"
      [] mode \in {"HOV3HOV", "HOV3TOLL"} -> "HOV3"
modes_assign(mode) ==
    CASE mode \in {"SOVGP", "SOVTOLL"} -> "SOV_TR"
      [] mode \in {"HOV2HOV", "HOV2TOLL"} -> "HOV2"
      [] mode \in {"HOV3HOV", "HOV3TOLL"} -> "HOV3"
EICalculation(p, mode, vot) ==
    [result |-> <<p, modes_assign(mode), vot>>,
     add |-> MAdd(Third(AggMatrix(p, mode, "EIWORK")),
                  Third(AggMatrix(p, mode, "EINONWORK"))),
     constraint |-> <<>>]
EICalculations ==
    [i \in 1..(Len(periods) * Len(ei_modes) * Len(vot_bins)) |->
        EICalculation(periods[((i - 1) \div (Len(ei_modes) * Len(vot_bins))) + 1],
                      ei_modes[(((i - 1) \div Len(vot_bins)) % Len(ei_modes)) + 1],
                      vot_bins[((i - 1) % Len(vot_bins)) + 1])]

\* External-external trips: modes and the calculations added
ee_modes == <<"SOV", "HOV2", "HOV3">>
EEUnconstrained(p, mode, vot) ==
    [result |-> IF mode = "SOV" THEN <<p, "SOV_NT", vot>> ELSE <<p, mode, vot>>,
     add |-> Third(AggMatrix(p, mode, "EETRIPS")),
     constraint |-> <<>>]
EECalculation(p, mode, vot) ==
    [result |-> IF mode = "SOV" THEN <<p, "SOV_NT", vot>> ELSE <<p, mode, vot>>,
     add |-> Third(AggMatrix(p, mode, "EETRIPS")),
     constraint |-> external_zones]
EECalculations ==
    [i \in 1..(Len(periods) * Len(ee_modes) * Len(vot_bins)) |->
        EECalculation(periods[((i - 1) \div (Len(ee_modes) * Len(vot_bins))) + 1],
                      ee_modes[(((i - 1) \div Len(vot_bins)) % Len(ee_modes)) + 1],
                      vot_bins[((i - 1) % Len(vot_bins)) + 1])]

\* Add external-internal trips to auto demand
AddExternalInternal ==
    /\ pc = "agg_ei"
    /\ store' = RunCalculations(store, EICalculations)
    /\ agg_adds' = agg_adds + 1
    /\ pc' = "agg_ee"
    /\ UNCHANGED <<inputs, calls, cvm, table, cvm_order, period_i, step, cache, error, av_demand,
                   total_ct_ramp_trips, passed, writes, array, cvm_reads,
                   commits, matrix_unique, commit_i>>

\* Add external-external trips to auto demand
AddExternalExternal ==
    /\ pc = "agg_ee"
    /\ store' = RunCalculations(store, EECalculations)
    /\ agg_adds' = agg_adds + 1
    /\ pc' = AfterStage("add_aggregate_demand")
    /\ UNCHANGED <<inputs, calls, cvm, table, cvm_order, period_i, step, cache, error, av_demand,
                   total_ct_ramp_trips, passed, writes, array, cvm_reads,
                   commits, matrix_unique, commit_i>>

\* ----------------------------------------------------------- a second call
\* __call__ has returned and is called again on the same tool object, with
\* the same arguments, files and properties: the locals of the stages start
\* afresh, self._matrix_cache and the emmebank are as the call left them.
\* The histories count per call.
CallAgain ==
    /\ pc = "done"
    /\ run < MaxRuns
    /\ run' = run + 1
    /\ first' = store
    /\ pc' = "start"
    /\ period_i' = 1
    /\ step' = 1
    /\ av_demand' = Zero
    /\ total_ct_ramp_trips' = Zero
    /\ array' = [k \in CvmKeys |-> Zero]
    /\ matrix_unique' = {}
    /\ commit_i' = 0
    /\ passed' = [n \in AutoNames |-> <<>>]
    /\ writes' = [n \in AutoNames |-> 0]
    /\ cvm_reads' = 0
    /\ commits' = [k \in CvmKeys |-> 0]
    /\ agg_adds' = 0
    /\ UNCHANGED <<inputs, cvm, table, cvm_order, cache, store, error>>

\* ---------------------------------------------------------- specification
Next ==
    \/ Start
    \/ ImportSovNT
    \/ ImportSovTR
    \/ ImportHov
    \/ ImportTaxi
    \/ Flush
    \/ CvmLoad
    \/ CvmProcess
    \/ CvmCommit
    \/ AddExternalInternal
    \/ AddExternalExternal

Spec == Init /\ [][Next]_vars

\* the tool called once, or again after a call has returned
NextAgain ==
    \/ Next
    \/ CallAgain

SpecAgain == Init /\ [][NextAgain]_vars

\* the position is one of __call__'s, and no demand is negative unless a
\* cvm.* entry is out of range
TypeOK ==
    /\ pc \in {"start", "traffic", "flush", "cvm_load", "cvm_process",
               "cvm_commit", "agg_ei", "agg_ee", "done", "raised"}
    /\ InRange(cvm) => \A n \in StoreNames : \A c \in Cells : store[n][c] >= 0

\* ==================================================================
\* Properties
\* ==================================================================
\* whole trips of a matrix of an OMX file of period p and vot bin v
T(kind, p, v, field, c) == TripsAt(<<kind, p, v>>, <<field, p>>, c)
\* whole trips of the optional CBX airport file: zero when it is not there
TCbx(kind, p, v, field, c) ==
    IF kind \in exists THEN T(kind, p, v, field, c) ELSE 0

\* import_traffic_trips has returned normally
TrafficReturned ==
    /\ pc \notin {"start", "traffic", "flush"}
    /\ error # "MissingSource"

\* the destination matrices still hold what the flush of setup() wrote
JustFlushed ==
    \/ pc = "cvm_load"
    \/ pc = "raised" /\ error = "MissingSource"

\* ------------------------------------------------------------------ C1
\* C1: once import_traffic_trips has completed, and until the
\* external-external pass adds to it, mf<period>_SOV_NT_<vot> is exactly
\* resident SOVNOTRPDR + visitor SOV + cross-border SOV of the period and
\* vot bin, for every period and vot bin: no airport, internal-external,
\* taxi, TNC or empty-AV term.
C1_SovNTIsResidentVisitorCrossBorder ==
    (TrafficReturned /\ pc \in {"cvm_load", "cvm_process", "cvm_commit", "agg_ei", "agg_ee", "raised"})
    => \A p \in Periods : \A v \in Vots : \A c \in Cells :
          store[<<p, "SOV_NT", v>>][c] =
              Fix(T("auto", p, v, "SOVNOTRPDR", c) + T("autoVisitor", p, v, "SOV", c)
                  + T("autoCrossBorder", p, v, "SOV", c))

\* import_traffic_trips completed with airport and internal-external SOV
\* trips present that the SOV_NT total leaves out
C1_Witness ==
    /\ pc = "cvm_load"
    /\ \E p \in Periods : \E v \in Vots : \E c \in Cells :
          /\ store[<<p, "SOV_NT", v>>][c] > 0
          /\ T("autoAirport.SAN", p, v, "SOV", c) > 0
          /\ T("autoInternalExternal", p, v, "SOV", c) > 0

\* ------------------------------------------------------------------ C2
\* the whole trips of the base total of a destination mode
BaseTrips(p, mode, v) ==
    [c \in Cells |->
        IF mode = "SOV_TR"
        THEN T("auto", p, v, "SOVTRPDR", c) + T("autoAirport.SAN", p, v, "SOV", c)
             + TCbx("autoAirport.CBX", p, v, "SOV", c)
             + T("autoInternalExternal", p, v, "SOV", c)
        ELSE LET sr == IF mode = "HOV2" THEN "SR2" ELSE "SR3"
                 tr == IF mode = "HOV2" THEN "SR2TRPDR" ELSE "SR3TRPDR"
                 nt == IF mode = "HOV2" THEN "SR2NOTRPDR" ELSE "SR3NOTRPDR"
             IN  T("auto", p, v, tr, c) + T("auto", p, v, nt, c)
                 + T("autoVisitor", p, v, sr, c) + T("autoCrossBorder", p, v, sr, c)
                 + T("autoAirport.SAN", p, v, sr, c)
                 + TCbx("autoAirport.CBX", p, v, sr, c)
                 + T("autoInternalExternal", p, v, sr, c)]

\* C2: the first value import_traffic_trips passes to set_data for
\* SOV_TR is resident SOVTRPDR + airport SAN + airport CBX +
\* internal-external, and for HOV2 / HOV3 it is resident (transponder +
\* non-transponder) + visitor + cross-border + airport SAN + airport CBX +
\* internal-external; the CBX term is there exactly when the CBX file
\* exists, and with no required file missing no error is raised, CBX file
\* or not.
C2_BaseTotals ==
    /\ \A p \in Periods : \A v \in Vots : \A mode \in {"SOV_TR", "HOV2", "HOV3"} :
          passed[<<p, mode, v>>] # <<>>
          => LET base == BaseTrips(p, mode, v)
             IN  passed[<<p, mode, v>>][1] = [c \in Cells |-> Fix(base[c])]
    /\ missing = NoFile => error # "MissingSource"

\* the import completed without the CBX file, whose trips would have
\* changed a SOV_TR and a HOV2 total
C2_Witness ==
    /\ pc = "cvm_load"
    /\ error = NoError
    /\ "autoAirport.CBX" \notin exists
    /\ \E p \in Periods : \E v \in Vots : \E c \in Cells :
          /\ T("autoAirport.CBX", p, v, "SOV", c) > 0
          /\ T("autoAirport.CBX", p, v, "SR2", c) > 0
          /\ Len(passed[<<p, "SOV_TR", v>>]) >= 1
          /\ Len(passed[<<p, "HOV2", v>>]) >= 1

\* ------------------------------------------------------------------ C3
\* the taxi / AV total most recently passed to set_data: <<period,
\* template>>, or <<>> when there has been none
LastTaxiCall ==
    IF pc = "start" THEN <<>>
    ELSE IF pc # "traffic" /\ error # "MissingSource"
    THEN <<periods[Len(periods)], "HOV3">>
    ELSE IF step > BaseSteps + 1
    THEN <<periods[period_i], mode_shares[step - 1 - BaseSteps][1]>>
    ELSE IF period_i > 1 THEN <<periods[period_i - 1], "HOV3">>
    ELSE <<>>

\* C3: the AV / TNC fleet demand of a period follows the AV-share rule.
\* With Mobility.AV.Share > 0: SOV_TR gets empty-AV + TNC 0 + TNC 1, HOV2
\* gets TNC 2, HOV3 gets TNC 3.  With the share 0: SOV_TR gets TNC 0, HOV2
\* gets TNC 1, HOV3 gets TNC 2 + TNC 3.
C3_AvShareRule ==
    LastTaxiCall # <<>>
    => LET p == LastTaxiCall[1]
           tmpl == LastTaxiCall[2]
           tnc(k) == Trips(<<"TNCVehicle", p, "">>, <<k, p>>)
           emptyAv == Trips(<<"EmptyAV", "", "">>, <<"EmptyAV", p>>)
       IN  \A c \in Cells :
              av_demand[c] =
                 IF props.av_share > 0
                 THEN (CASE tmpl = "SOV_TR" ->
                              Fix(emptyAv[c] + tnc("TNC_0")[c] + tnc("TNC_1")[c])
                         [] tmpl = "HOV2" -> Fix(tnc("TNC_2")[c])
                         [] tmpl = "HOV3" -> Fix(tnc("TNC_3")[c]))
                 ELSE (CASE tmpl = "SOV_TR" -> Fix(tnc("TNC_0")[c])
                         [] tmpl = "HOV2" -> Fix(tnc("TNC_1")[c])
                         [] tmpl = "HOV3" -> Fix(tnc("TNC_2")[c] + tnc("TNC_3")[c]))

\* with the AV share 0, the HOV2 total of a period was just computed from
\* TNC 1-occupant trips that differ from the TNC 2-occupant trips
C3_Witness ==
    /\ props.av_share = 0
    /\ pc = "traffic"
    /\ LastTaxiCall # <<>>
    /\ LastTaxiCall[2] = "HOV2"
    /\ \E c \in Cells :
          /\ av_demand[c] > 0
          /\ Trips(<<"TNCVehicle", LastTaxiCall[1], "">>, <<"TNC_1", LastTaxiCall[1]>>)[c]
                # Trips(<<"TNCVehicle", LastTaxiCall[1], "">>, <<"TNC_2", LastTaxiCall[1]>>)[c]

\* ------------------------------------------------------------------ C4
\* the names that get a taxi / AV total besides their base total
TaxiNames == {<<p, mode, "H">> : p \in Periods, mode \in {"SOV_TR", "HOV2", "HOV3"}}

\* C4: within one setup() scope set_data sums: a name is in the cache
\* exactly when a value has been passed for it, and the cached value is the
\* sum of every value passed for the name, in whichever order they are
\* added, which is what one call with the summed value stores; so the
\* SOV_TR_H, HOV2_H and HOV3_H entries end as base total + taxi / AV total.
C4_SetDataSums ==
    \A n \in AutoNames :
       /\ n \in DOMAIN cache <=> passed[n] # <<>>
       /\ n \in DOMAIN cache
          => /\ cache[n] = SumSeq(passed[n])
             /\ cache[n] = SumSeq(Reverse(passed[n]))
             /\ set_data(EmptyCache, n, SumSeq(passed[n]))[n] = cache[n]
             /\ (n \in TaxiNames /\ Len(passed[n]) = 2)
                => cache[n] = MAdd(passed[n][1], passed[n][2])

\* a high-vot entry holds a base total and a taxi / AV total, both nonzero
C4_Witness ==
    \E n \in TaxiNames : \E c \in Cells :
       /\ Len(passed[n]) = 2
       /\ passed[n][1][c] > 0
       /\ passed[n][2][c] > 0
       /\ cache[n][c] = passed[n][1][c] + passed[n][2][c]

\* ------------------------------------------------------------------ C5
\* C5: no destination matrix is written before the setup() scope exits;
\* when it exits, normally or by an error raised inside it, every key of
\* the cache has been written exactly once, with its summed value, and no
\* other matrix has been written; the error raised inside the scope is the
\* one the caller gets, after the flush.
C5_FlushOnceOnExit ==
    /\ pc \in {"start", "traffic", "flush"}
       => \A n \in AutoNames : writes[n] = 0 /\ store[n] = StartMatrix(n)
    /\ pc \notin {"start", "traffic", "flush"}
       => \A n \in AutoNames : writes[n] = IF n \in DOMAIN cache THEN 1 ELSE 0
    /\ JustFlushed
       => \A n \in AutoNames :
             store[n] = IF n \in DOMAIN cache THEN SumSeq(passed[n]) ELSE StartMatrix(n)
    /\ error = "MissingSource" => pc \in {"flush", "raised"}
    /\ (missing # NoFile /\ pc \notin {"start", "traffic", "flush"})
       => pc = "raised" /\ error = "MissingSource"

\* an error raised inside the scope has reached the caller, and the cache,
\* which was not empty, has been written out
C5_Witness ==
    /\ pc = "raised"
    /\ error = "MissingSource"
    /\ \E n \in DOMAIN cache : \E c \in Cells :
          writes[n] = 1 /\ store[n] = cache[n] /\ store[n][c] # StartMatrix(n)[c]

\* ------------------------------------------------------------------ C6
\* the set_data calls import_traffic_trips makes for a name
CallsDue(n) == IF n \in TaxiNames THEN 2 ELSE 1

\* C6: when an error is raised partway through import_traffic_trips, only
\* the keys that had received all of their contributions are written before
\* the error is re-raised; a key holding some but not all of them is not
\* written.
C6_OnlyCompleteKeysWritten ==
    (pc = "raised" /\ error = "MissingSource")
    => \A n \in AutoNames : writes[n] > 0 => Len(passed[n]) = CallsDue(n)

\* ------------------------------------------------------------------ C7
\* whole taxi trips of a period: resident + visitor + cross-border +
\* airport SAN + airport CBX (if the file exists) + internal-external
TaxiTrips(p) ==
    [c \in Cells |->
        T("othr", p, "", "TAXI", c) + T("othrVisitor", p, "", "TAXI", c)
        + T("othrCrossBorder", p, "", "TAXI", c) + T("othrAirport.SAN", p, "", "TAXI", c)
        + TCbx("othrAirport.CBX", p, "", "TAXI", c)
        + T("othrInternalExternal", p, "", "TAXI", c)]

\* the set_data call most recently made was the one of LastTaxiCall, so
\* total_ct_ramp_trips is its total
JustAfterTaxi ==
    /\ LastTaxiCall # <<>>
    /\ step > BaseSteps + 1 \/ (step = 1 /\ period_i > 1)

\* Taxi.da.share, Taxi.s2.share, Taxi.s3.share by destination template
OccupancyShare(tmpl) ==
    CASE tmpl = "SOV_TR" -> props.taxi.da
      [] tmpl = "HOV2" -> props.taxi.s2
      [] tmpl = "HOV3" -> props.taxi.s3

\* C7 as stated: the taxi demand added to a high-vot destination is the
\* taxi trips of the period times the occupancy share of the destination.
C7_TaxiTimesShare ==
    JustAfterTaxi
    => LET taxi == TaxiTrips(LastTaxiCall[1])
       IN  \A c \in Cells :
              total_ct_ramp_trips[c] - av_demand[c]
                 = taxi[c] * OccupancyShare(LastTaxiCall[2])

\* C7 amended: the taxi demand added to a high-vot destination is the taxi
\* trips of the period times the occupancy share of the destination divided
\* by Taxi.passengersPerVehicle; and taxi demand goes to vot "high" only:
\* a low or med name, and SOV_NT, is passed its base total and nothing else.
C7_TaxiTimesShareOverPce ==
    /\ JustAfterTaxi
       => LET taxi == TaxiTrips(LastTaxiCall[1])
          IN  \A c \in Cells :
                 (total_ct_ramp_trips[c] - av_demand[c]) * props.taxi.pce
                    = taxi[c] * OccupancyShare(LastTaxiCall[2]) * Units
    /\ \A n \in AutoNames : Len(passed[n]) > 1 => n \in TaxiNames

\* a taxi total was just added with 2 passengers per vehicle and nonzero
\* taxi trips and share
C7_Witness ==
    /\ JustAfterTaxi
    /\ props.taxi.pce = 2 * Units
    /\ \E c \in Cells :
          /\ TaxiTrips(LastTaxiCall[1])[c] > 0
          /\ OccupancyShare(LastTaxiCall[2]) > 0
          /\ total_ct_ramp_trips[c] - av_demand[c] > 0

\* ------------------------------------------------------------------ C8
\* the external-external mode whose matrix is added to a destination
EEModeOf(n) == IF n[2] = "SOV_NT" THEN "SOV" ELSE n[2]
InExternalZones(c) ==
    /\ c[1] \in external_zones[1]..external_zones[2]
    /\ c[2] \in external_zones[1]..external_zones[2]

\* C8: the external-external pass adds one third of the mode's EETRIPS
\* matrix to mf<p>_SOV_NT_<v>, mf<p>_HOV2_<v> and mf<p>_HOV3_<v>, in the
\* cells whose origin and destination are both in the external zone range;
\* every other cell, and every other matrix, is after the pass as before.
C8_ExternalExternalMasked ==
    [][pc = "agg_ee"
       => \A n \in StoreNames : \A c \in Cells :
             IF n \in AutoNames /\ n[2] \in {"SOV_NT", "HOV2", "HOV3"} /\ InExternalZones(c)
             THEN 3 * (store'[n][c] - store[n][c])
                     = AggMatrix(n[1], EEModeOf(n), "EETRIPS")[c]
             ELSE store'[n][c] = store[n][c]]_vars

\* the pass has run with a range that leaves zones out, and there were
\* external-external trips both in a cell inside and in a cell outside it
C8_Witness ==
    /\ pc = "done"
    /\ external_zones[2] < NumZones
    /\ \E p \in Periods : \E inside \in Cells : \E outside \in Cells :
          /\ InExternalZones(inside) /\ ~InExternalZones(outside)
          /\ AggMatrix(p, "SOV", "EETRIPS")[inside] > 0
          /\ AggMatrix(p, "SOV", "EETRIPS")[outside] > 0

\* ------------------------------------------------------------------ C9
\* the two internal-external mode groups of an assignment mode
EIGroups(mode) ==
    CASE mode = "SOV_TR" -> <<"SOVGP", "SOVTOLL">>
      [] mode = "HOV2" -> <<"HOV2HOV", "HOV2TOLL">>
      [] mode = "HOV3" -> <<"HOV3HOV", "HOV3TOLL">>
\* EIWORK + EINONWORK of both groups
EIWhole(p, mode) ==
    [c \in Cells |->
        AggMatrix(p, EIGroups(mode)[1], "EIWORK")[c]
        + AggMatrix(p, EIGroups(mode)[1], "EINONWORK")[c]
        + AggMatrix(p, EIGroups(mode)[2], "EIWORK")[c]
        + AggMatrix(p, EIGroups(mode)[2], "EINONWORK")[c]]

\* C9: the internal-external pass adds to mf<p>_SOV_TR_<v> one third of
\* SOVGP and SOVTOLL EIWORK + EINONWORK, both of them, and likewise to HOV2
\* and HOV3 from their two groups; over the three vot bins the whole of the
\* aggregate matrices is added, once; SOV_NT and the truck matrices are
\* left as they were.
C9_InternalExternalBothGroups ==
    [][pc = "agg_ei"
       => /\ \A p \in Periods : \A mode \in {"SOV_TR", "HOV2", "HOV3"} : \A c \in Cells :
                /\ \A v \in Vots :
                      3 * (store'[<<p, mode, v>>][c] - store[<<p, mode, v>>][c])
                         = EIWhole(p, mode)[c]
                /\ (store'[<<p, mode, "L">>][c] - store[<<p, mode, "L">>][c])
                   + (store'[<<p, mode, "M">>][c] - store[<<p, mode, "M">>][c])
                   + (store'[<<p, mode, "H">>][c] - store[<<p, mode, "H">>][c])
                      = EIWhole(p, mode)[c]
          /\ \A n \in StoreNames :
                (n \notin AutoNames \/ n[2] = "SOV_NT") => store'[n] = store[n]]_vars

\* the pass has run on toll and general-purpose matrices that are not zero
C9_Witness ==
    /\ pc = "agg_ee"
    /\ agg_adds = 1
    /\ \E p \in Periods : \E c \in Cells :
          /\ AggMatrix(p, "SOVGP", "EIWORK")[c] > 0
          /\ AggMatrix(p, "SOVTOLL", "EINONWORK")[c] > 0

\* ----------------------------------------------------------------- C10
\* C10: the stages of __call__ run in order.  Once
\* import_commercial_vehicle_demand has read a starting matrix, every key
\* of the accumulation phase has been written, once, and none is written
\* again; once add_aggregate_demand has run a calculation, every mapping
\* key has been committed, once; and after a stage has raised no later
\* stage has run.
C10_StagesInOrder ==
    /\ \A n \in AutoNames : writes[n] <= 1
    /\ \A k \in CvmKeys : commits[k] <= 1
    /\ cvm_reads > 0
       => /\ error # "MissingSource"
          /\ \A n \in AutoNames : writes[n] = 1
    /\ agg_adds > 0
       => /\ error = NoError
          /\ cvm_reads > 0
          /\ \A k \in CvmKeys : commits[k] = 1
    /\ error = "MissingSource"
       => /\ cvm_reads = 0 /\ agg_adds = 0
          /\ \A k \in CvmKeys : commits[k] = 0
    /\ error = "ValueError"
       => /\ agg_adds = 0
          /\ \A k \in CvmKeys : commits[k] = 0

\* the three stages have all run to the end
C10_Witness ==
    /\ pc = "done"
    /\ agg_adds = 2
    /\ cvm_reads = Cardinality(CvmKeys)
    /\ \A k \in CvmKeys : commits[k] = 1
    /\ \A n \in AutoNames : writes[n] = 1

\* ----------------------------------------------------------------- C11
\* The properties of sandag_abm.properties a vehicle class of the
\* commercial vehicle model is scaled and split by, and its PCE factor, as
\* the claims state them: the light-truck class (INT) is scaled and split
\* by the medium entries.
ClassScale(key) ==
    CASE key[2] = "LNT" -> cvm.scale_light[PeriodIdx(key[1])]
      [] key[2] \in {"INT", "MNT"} -> cvm.scale_medium[PeriodIdx(key[1])]
      [] key[2] = "HNT" -> cvm.scale_heavy[PeriodIdx(key[1])]
ClassShare(key) ==
    CASE key[2] = "LNT" -> cvm.share_light
      [] key[2] \in {"INT", "MNT"} -> cvm.share_medium
      [] key[2] = "HNT" -> cvm.share_heavy
ClassPce(key) ==
    CASE key[2] = "LNT" -> Units
      [] key[2] = "INT" -> (13 * Units) \div 10
      [] key[2] = "MNT" -> (15 * Units) \div 10
      [] key[2] = "HNT" -> (25 * Units) \div 10
ClassDest(key) ==
    CASE key[2] = "LNT" -> <<key[1], "SOV_TR", "H">>
      [] key[2] = "INT" -> <<key[1], "TRK_L", "">>
      [] key[2] = "MNT" -> <<key[1], "TRK_M", "">>
      [] key[2] = "HNT" -> <<key[1], "TRK_H", "">>
\* the starting matrix of a class at a cell: what import_traffic_trips
\* left in the high-vot SOV transponder matrix, or the truck vehicle matrix
ClassStart(key, c) ==
    IF key[2] = "LNT"
    THEN cache[<<key[1], "SOV_TR", "H">>][c]
    ELSE StartMatrix(<<key[1], ClassDest(key)[2], "VEH">>)[c]
\* raw count / global scale factor x the class's per-period scale
ScaledCount(key, c) ==
    Mul(Div(TableColumn(key)[c], cvm.scale_factor), ClassScale(key))
\* what the light-truck class gains from the light, medium and heavy rows
RedistributionTerms(p, c) ==
    Mul(ScaledCount(<<p, "LNT">>, c), ClassShare(<<p, "LNT">>))
    + Mul(ScaledCount(<<p, "MNT">>, c), ClassShare(<<p, "MNT">>))
    + Mul(ScaledCount(<<p, "HNT">>, c), ClassShare(<<p, "HNT">>))
\* the commit loop is over and add_aggregate_demand has not yet added to
\* the SOV transponder matrices
JustCommitted == pc = "agg_ei"

\* C11: for each period and each of the four vehicle classes, the matrix
\* committed to the class's destination is pce x (starting matrix + (raw
\* count / global scale factor x the class's per-period scale) x (1 - class
\* share) [+ the redistribution terms for the light-truck class]), with pce
\* 1.0, 1.3, 1.5 and 2.5: the PCE factor is applied once to every term.
C11_CommittedIsPceTimesBlend ==
    \A key \in CvmKeys :
        (commits[key] = 1 /\ (key[2] = "LNT" => pc \in {"cvm_commit", "agg_ei"}))
        => \A c \in Cells :
              store[ClassDest(key)][c]
              = Mul(ClassPce(key),
                    ClassStart(key, c)
                    + Mul(ScaledCount(key, c), Units - ClassShare(key))
                    + (IF key[2] = "INT" THEN RedistributionTerms(key[1], c) ELSE 0))

\* every class is committed, under a scale factor of 2 and shares other
\* than 0, and a light-truck matrix holds more than 1.3 x its starting matrix
C11_Witness ==
    /\ JustCommitted
    /\ \A key \in CvmKeys : commits[key] = 1
    /\ cvm.scale_factor = 2 * Units
    /\ cvm.share_heavy = Units \div 2
    /\ \E p \in Periods : \E c \in Cells :
          /\ RedistributionTerms(p, c) > 0
          /\ store[<<p, "TRK_L", "">>][c]
             > Mul(ClassPce(<<p, "INT">>), ClassStart(<<p, "INT">>, c))
          /\ store[<<p, "TRK_H", "">>][c]
             > Mul(ClassPce(<<p, "HNT">>), ClassStart(<<p, "HNT">>, c))

\* ----------------------------------------------------------------- C12
\* what a row hands over to the light-truck accumulator: nothing when its
\* share is 0, else its scaled count times its own share
HandedOver(key, c) ==
    IF ClassShare(key) = 0 THEN 0 ELSE Mul(ScaledCount(key, c), ClassShare(key))
\* TripMatrices.csv has been processed into the accumulators
Processed == table = "ok"

\* C12: for each period only the light-truck (INT) accumulator receives
\* redistribution: besides its own (1 - share) part it gains, for each of
\* the light, medium and heavy rows of the period, that row's scaled count
\* times that row's own share, a row of share 0 giving nothing; every other
\* accumulator gains its own (1 - share) part only, so with share 1 nothing
\* of a row's count is added to its own destination.
C12_OnlyLightTruckReceives ==
    Processed
    => \A key \in CvmKeys : \A c \in Cells :
          LET gain == array[key][c] - ClassStart(key, c)
              own == Mul(ScaledCount(key, c), Units - ClassShare(key))
          IN  /\ key[2] # "INT" => gain = own
              /\ key[2] = "INT"
                 => gain - own = HandedOver(<<key[1], "LNT">>, c)
                                 + HandedOver(<<key[1], "MNT">>, c)
                                 + HandedOver(<<key[1], "HNT">>, c)
              /\ (key[2] # "INT" /\ ClassShare(key) = Units)
                 => array[key][c] = ClassStart(key, c)

\* with the medium share 1 and the light share one half: a medium row with
\* a count leaves its own accumulator as it started and the light-truck
\* accumulator gains that whole count, and half of a light row's count
C12_Witness ==
    /\ Processed
    /\ cvm.share_medium = Units
    /\ cvm.share_light = Units \div 2
    /\ \E p \in Periods : \E c \in Cells :
          /\ ScaledCount(<<p, "MNT">>, c) > 0
          /\ ScaledCount(<<p, "LNT">>, c) > 0
          /\ array[<<p, "MNT">>][c] = ClassStart(<<p, "MNT">>, c)
          /\ array[<<p, "INT">>][c] - ClassStart(<<p, "INT">>, c)
             >= ScaledCount(<<p, "MNT">>, c) + ScaledCount(<<p, "LNT">>, c) \div 2
          /\ array[<<p, "LNT">>][c] - ClassStart(<<p, "LNT">>, c)
             = ScaledCount(<<p, "LNT">>, c) \div 2

\* ----------------------------------------------------------------- C14
\* C14: if a column of TripMatrices.csv does not have (zone count) squared
\* entries, import_commercial_vehicle_demand fails with a
\* ShapeMismatchError, and at the moment of failure no destination matrix
\* has been mutated: none by the commit loop, none by setup().
C14_ShapeMismatchBeforeMutation ==
    table = "bad_shape"
    => /\ error = "ShapeMismatchError"
       /\ \A key \in CvmKeys : commits[key] = 0
       /\ \A n \in AutoNames : writes[n] = 0

\* ----------------------------------------------------------------- C15
\* the cvm.* entries have been read and one of them is out of range
InvalidConfiguration == cvm # CvmUnread /\ ~InRange(cvm)
\* a destination matrix holds a negative demand
NegativeDemand ==
    \E n \in AutoNames \cup TruckNames : \E c \in Cells : store[n][c] < 0

\* C15: a configuration with an invalid value (a negative share or scale,
\* or a class share greater than 1) makes the run fail with a
\* ConfigurationError before any destination matrix is written, and no run
\* with such a configuration completes with negative demand in a
\* destination matrix.
C15_InvalidConfigurationFailsFirst ==
    InvalidConfiguration
    => /\ pc \in {"cvm_process", "raised"}
       /\ pc = "raised" => error = "ConfigurationError"
       /\ \A n \in AutoNames : writes[n] = 0
       /\ \A key \in CvmKeys : commits[key] = 0
       /\ ~NegativeDemand

\* ----------------------------------------------------------------- C16
\* a call after the first has run to the end
CalledAgain == run > 1 /\ pc = "done"

\* C16: calling __call__ again on unchanged inputs is idempotent: after a
\* second complete call every destination matrix (SOV_NT, SOV_TR, HOV2,
\* HOV3 of every period and vot, TRK_L, TRK_M, TRK_H of every period)
\* holds what it held after the first.
C16_SecondCallLeavesSame ==
    CalledAgain
    => \A n \in AutoNames \cup TruckNames : store[n] = first[n]

\* a second call has ended, under shares other than 0, having committed the
\* commercial vehicles and added the aggregate demand anew to matrices
\* that do not hold what they held before the first call
C16_Witness ==
    /\ CalledAgain
    /\ run = 2
    /\ cvm.share_medium = Units
    /\ agg_adds = 2
    /\ \A key \in CvmKeys : commits[key] = 1
    /\ \A n \in AutoNames : writes[n] = 1
    /\ \E p \in Periods :
          /\ store[<<p, "SOV_TR", "H">>] # StartMatrix(<<p, "SOV_TR", "H">>)
          /\ store[<<p, "SOV_TR", "H">>] # cache[<<p, "SOV_TR", "H">>]
          /\ store[<<p, "TRK_L", "">>] # StartMatrix(<<p, "TRK_L", "">>)

====
